---------------------------- MODULE Spec2Model ----------------------------
(***************************************************************************)
(* CORTEX node firmware (cortex_node.ino): the sampling / encoding /       *)
(* transmission engine and the record it writes to its BLE characteristic. *)
(*                                                                         *)
(* 32-bit quantities that are counted (millis(), t_ms, the two timers) are *)
(* kept as two 16-bit halves [hi, lo] so that arithmetic mod 2^32 is exact.*)
(* A float is kept as its IEEE-754 single-precision bit pattern.           *)
(***************************************************************************)
EXTENDS Integers, Sequences, FiniteSets, TLC

\* ------------------------------------------------------------- bounds
\* Milliseconds of uptime that pass in one Tick step.
Quantum == 100
\* Number of Tick steps a behaviour may take.
MaxTicks == 6
\* Number of connect events a behaviour may see.
MaxConnects == 2

\* ------------------------------------------------- program constants
NODE_ID == 1
sampleInterval == 100
notifyInterval == 200
\* NAN, as a float bit pattern (0x7FC00000)
NaN == 2143289344
\* sizeof(CortexPacket) the documentation and the struct's comment state
DocPacketSize == 44

Half == 65536
MAGIC == <<67, 84, 88, 49>>          \* "CTX1"

\* --------------------------------------------------- 32-bit counters
U32(h, l) == [hi |-> h, lo |-> l]
Zero32 == U32(0, 0)

\* a + d mod 2^32, for 0 <= d < 2^16
Add32(a, d) ==
    LET l == a.lo + d
    IN  U32((a.hi + (l \div Half)) % Half, l % Half)

\* a - b mod 2^32 (unsigned long subtraction)
Sub32(a, b) ==
    LET l == a.lo - b.lo
        borrow == IF l < 0 THEN 1 ELSE 0
    IN  U32((a.hi - b.hi - borrow + 2 * Half) % Half, (l + Half) % Half)

\* x >= k, for 0 <= k < 2^16
Ge32(x, k) == x.hi > 0 \/ x.lo >= k

\* a <= b, as unsigned long values
Le32(a, b) == a.hi < b.hi \/ (a.hi = b.hi /\ a.lo <= b.lo)

\* ------------------------------------------------------------ floats
\* floor(log2(n)) for n >= 1
RECURSIVE Log2(_)
Log2(n) == IF n <= 1 THEN 0 ELSE 1 + Log2(n \div 2)

RECURSIVE Pow2(_)
Pow2(e) == IF e = 0 THEN 1 ELSE 2 * Pow2(e - 1)

\* int -> float conversion (packet.lux = a), exact for 0 <= n < 2^24
IntToFloat(n) ==
    IF n = 0 THEN 0
    ELSE LET e == Log2(n)
         IN  (e + 127) * Pow2(23) + (n - Pow2(e)) * Pow2(23 - e)

\* integer square root: the largest r with r*r <= n
Isqrt(n) == CHOOSE r \in 0..n : r * r <= n /\ (r + 1) * (r + 1) > n

\* floor(sqrt(n * 4^k)) and its remainder, from <<floor(sqrt(n)), remainder>>,
\* one result bit per step
RECURSIVE SqrtBits(_, _)
SqrtBits(qr, k) ==
    IF k = 0 THEN qr
    ELSE LET q == qr[1]
             r == 4 * qr[2]
         IN  IF r >= 4 * q + 1
             THEN SqrtBits(<<2 * q + 1, r - (4 * q + 1)>>, k - 1)
             ELSE SqrtBits(<<2 * q, r>>, k - 1)

\* sqrt() of the float n (a whole number, 0 <= n < 2^24), rounded to the
\* nearest float, ties to even
FloatSqrt(n) ==
    IF n = 0 THEN 0
    ELSE LET q0 == Isqrt(n)
             e == Log2(q0)
             \* 24 mantissa bits and one guard bit
             qr == SqrtBits(<<q0, n - q0 * q0>>, 24 - e)
             m == qr[1] \div 2
             up == IF qr[1] % 2 = 1 /\ (qr[2] # 0 \/ m % 2 = 1) THEN 1 ELSE 0
         IN  (e + 127) * Pow2(23) + (m + up - Pow2(23))

\* readSensors() storing the squared magnitude
AccelMagnitude_NoSqrt(ax, ay, az) == IntToFloat(ax * ax + ay * ay + az * az)

\* readSensors(): sqrt(ax*ax + ay*ay + az*az), for samples whose components
\* are whole g (the products and the sum are then exact)
AccelMagnitude(ax, ay, az) == FloatSqrt(ax * ax + ay * ay + az * az)

\* --------------------------------------------------- hardware inputs
\* HTS.readTemperature(): 21.5
TempReadings == {1101791232}
\* HTS.readHumidity(): 45.0
HumReadings == {1110704128}
\* BARO.readPressure(): 1013.25
PressReadings == {1149063168}
\* APDS.readColor(r, g, b, a): the ambient channel a
AmbientReadings == {300}
\* IMU.readAcceleration(ax, ay, az)
AccelReadings == {<<0, 0, 1>>, <<3, 4, 0>>, <<1, 1, 0>>}

\* One sampling tick's view of the hardware.
SensorInputs ==
    [temp : TempReadings, hum : HumReadings, press : PressReadings,
     colorAvailable : BOOLEAN, a : AmbientReadings,
     accelerationAvailable : BOOLEAN, acc : AccelReadings]

\* AccelMagnitude, tabulated once over the samples (@@ makes the table an
\* explicit function)
AccelTable ==
    [t \in AccelReadings |-> AccelMagnitude(t[1], t[2], t[3])] @@ <<>>

VARIABLES
    pc,              \* "boot" | "halted" | "loop" | "poll" | "notify"
    now,             \* millis()
    currentTime,     \* loop()'s local currentTime
    lastSampleTime,
    lastNotifyTime,
    hts_ok, baro_ok, apds_ok, lsm_ok,
    packet,          \* the global CortexPacket
    charValue,       \* value of cortexCharacteristic (<<>>: none written yet)
    connected,       \* BLE.connected()
    advertising,     \* the stack is advertising
    led,             \* LED_BUILTIN is HIGH
    sent,            \* history: records written by notification ticks
    sampled,         \* history: a sampling tick has run
    connects,        \* history: connect events seen
    ticks,           \* history: Tick steps taken
    hist,            \* history: outcome of each elapsed notify timer, "tx" | "skip"
    bleStarted,      \* history: BLE.begin() has returned true
    lastFrame,       \* history: the six values left by the latest sampling tick
    fieldStamp,      \* history: per sensor field, <<currentTime>> of the sampling
                     \*          tick that last wrote it (<<>>: none has)
    hub,             \* the hub's per-node sequence tracking
    lost,            \* notifications not delivered since the last delivered one
    lossy,           \* the link may drop a notification
    lastAcc,         \* history: the (ax, ay, az) the latest sampling tick read
                     \*          (<<>>: it read none)
    lastColor,       \* history: <<a>>, the ambient channel the latest sampling
                     \*          tick read (<<>>: it read none)
    dispatched       \* history: BLE.poll() has dispatched a disconnect event
                     \*          in the loop() iteration under way

vars == <<pc, now, currentTime, lastSampleTime, lastNotifyTime,
          hts_ok, baro_ok, apds_ok, lsm_ok, packet, charValue,
          connected, advertising, led, sent, sampled, connects, ticks,
          hist, bleStarted, lastFrame, fieldStamp, hub, lost, lossy, lastAcc,
          lastColor, dispatched>>

flags == <<hts_ok, baro_ok, apds_ok, lsm_ok>>
timers == <<currentTime, lastSampleTime, lastNotifyTime>>
link == <<connected, advertising, led, connects>>
audit == <<lastFrame, fieldStamp, lastAcc, lastColor>>
hubv == <<hub, lost, lossy>>

\* ------------------------------------------------------ CortexPacket
\* The zero-initialised global: every float is 0.0
ZeroPacket ==
    [magic |-> <<0, 0, 0, 0>>, node_id |-> 0, reserved |-> 0, seq |-> 0,
     t_ms |-> Zero32, temp_c |-> 0, rh_pct |-> 0, pressure_hpa |-> 0,
     lux |-> 0, accel_g |-> 0, sound_dbfs |-> 0]

LE16(x) == <<x % 256, x \div 256>>
LE32F(x) == <<x % 256, (x \div 256) % 256, (x \div 65536) % 256, x \div 16777216>>
LE32(t) == LE16(t.lo) \o LE16(t.hi)

\* The memory image of the packed struct on the little-endian target:
\* what writeValue(&packet, sizeof(packet)) hands to the characteristic.
PacketBytes(p) ==
    p.magic \o <<p.node_id, p.reserved>> \o LE16(p.seq) \o LE32(p.t_ms)
      \o LE32F(p.temp_c) \o LE32F(p.rh_pct) \o LE32F(p.pressure_hpa)
      \o LE32F(p.lux) \o LE32F(p.accel_g) \o LE32F(p.sound_dbfs)

\* sizeof(packet): the characteristic's value size
SizeofPacket == Len(PacketBytes(ZeroPacket))

\* decoding a written record per the documented offsets
U16At(bytes, off) == bytes[off + 1] + 256 * bytes[off + 2]
F32At(bytes, off) ==
    bytes[off + 1] + 256 * bytes[off + 2] + 65536 * bytes[off + 3]
      + 16777216 * bytes[off + 4]
U32At(bytes, off) == U32(U16At(bytes, off + 2), U16At(bytes, off))
SeqOf(bytes) == U16At(bytes, 6)

\* A record read back per the documented layout: offsets 0, 4, 5, 6, 8,
\* 12 .. 32, and the padding at 36 .. 43
Decode(bytes) ==
    [magic |-> SubSeq(bytes, 1, 4), node_id |-> bytes[5], reserved |-> bytes[6],
     seq |-> U16At(bytes, 6), t_ms |-> U32At(bytes, 8),
     temp_c |-> F32At(bytes, 12), rh_pct |-> F32At(bytes, 16),
     pressure_hpa |-> F32At(bytes, 20), lux |-> F32At(bytes, 24),
     accel_g |-> F32At(bytes, 28), sound_dbfs |-> F32At(bytes, 32)]
Padding(bytes) == SubSeq(bytes, 37, DocPacketSize)

\* the six sensor fields of the frame, and of a written record
FrameFields(p) ==
    <<p.temp_c, p.rh_pct, p.pressure_hpa, p.lux, p.accel_g, p.sound_dbfs>>
RecordFields(bytes) ==
    <<F32At(bytes, 12), F32At(bytes, 16), F32At(bytes, 20), F32At(bytes, 24),
      F32At(bytes, 28), F32At(bytes, 32)>>

\* setup(): memcpy forgotten
InitHeader_NoMagic(p) ==
    [p EXCEPT !.node_id = NODE_ID, !.reserved = 0, !.seq = 0]

\* setup(): Initialize packet structure
InitHeader(p) ==
    [p EXCEPT !.magic = MAGIC, !.node_id = NODE_ID, !.reserved = 0, !.seq = 0]

\* readSensors() reading the temperature/humidity part whatever hts_ok says
ReadSensors_IgnoreFlag(p, h, b, a, l, in) ==
    [p EXCEPT
       !.temp_c = in.temp,
       !.rh_pct = in.hum,
       !.pressure_hpa = IF b THEN in.press ELSE NaN,
       !.lux = IF a /\ in.colorAvailable THEN IntToFloat(in.a) ELSE NaN,
       !.accel_g = IF l /\ in.accelerationAvailable
                   THEN AccelTable[in.acc]
                   ELSE NaN,
       !.sound_dbfs = NaN]

\* readSensors() leaving accel_g alone when no new acceleration sample is ready
ReadSensors_KeepStaleAccel(p, h, b, a, l, in) ==
    [p EXCEPT
       !.temp_c = IF h THEN in.temp ELSE NaN,
       !.rh_pct = IF h THEN in.hum ELSE NaN,
       !.pressure_hpa = IF b THEN in.press ELSE NaN,
       !.lux = IF a /\ in.colorAvailable THEN IntToFloat(in.a) ELSE NaN,
       !.accel_g = IF l /\ in.accelerationAvailable
                   THEN AccelTable[in.acc]
                   ELSE @,
       !.sound_dbfs = NaN]

\* readSensors() without packet.sound_dbfs = NAN
ReadSensors_NoSound(p, h, b, a, l, in) ==
    [p EXCEPT
       !.temp_c = IF h THEN in.temp ELSE NaN,
       !.rh_pct = IF h THEN in.hum ELSE NaN,
       !.pressure_hpa = IF b THEN in.press ELSE NaN,
       !.lux = IF a /\ in.colorAvailable THEN IntToFloat(in.a) ELSE NaN,
       !.accel_g = IF l /\ in.accelerationAvailable
                   THEN AccelTable[in.acc]
                   ELSE NaN]

\* readSensors() leaving lux alone when no new colour sample is ready
ReadSensors_KeepStale(p, h, b, a, l, in) ==
    [p EXCEPT
       !.temp_c = IF h THEN in.temp ELSE NaN,
       !.rh_pct = IF h THEN in.hum ELSE NaN,
       !.pressure_hpa = IF b THEN in.press ELSE NaN,
       !.lux = IF a /\ in.colorAvailable THEN IntToFloat(in.a) ELSE @,
       !.accel_g = IF l /\ in.accelerationAvailable
                   THEN AccelTable[in.acc]
                   ELSE NaN,
       !.sound_dbfs = NaN]

\* readSensors()
ReadSensors(p, h, b, a, l, in) ==
    [p EXCEPT
       !.temp_c = IF h THEN in.temp ELSE NaN,
       !.rh_pct = IF h THEN in.hum ELSE NaN,
       !.pressure_hpa = IF b THEN in.press ELSE NaN,
       !.lux = IF a /\ in.colorAvailable THEN IntToFloat(in.a) ELSE NaN,
       !.accel_g = IF l /\ in.accelerationAvailable
                   THEN AccelTable[in.acc]
                   ELSE NaN,
       !.sound_dbfs = NaN]

\* updateAndNotify() without packet.t_ms = millis()
UpdateAndNotify_NoStamp(p, t) ==
    [p EXCEPT !.seq = (p.seq + 1) % Half]

\* updateAndNotify() clearing the frame once it is sent
UpdateAndNotify_ClearsFrame(p, t) ==
    [p EXCEPT !.t_ms = t, !.seq = (p.seq + 1) % Half,
              !.lux = NaN, !.accel_g = NaN, !.temp_c = NaN]

\* updateAndNotify() writing 0.0 where the frame holds NaN
UpdateAndNotify_ZeroNaN(p, t) ==
    [p EXCEPT !.t_ms = t, !.seq = (p.seq + 1) % Half,
              !.temp_c = IF @ = NaN THEN 0 ELSE @,
              !.rh_pct = IF @ = NaN THEN 0 ELSE @,
              !.pressure_hpa = IF @ = NaN THEN 0 ELSE @,
              !.lux = IF @ = NaN THEN 0 ELSE @,
              !.accel_g = IF @ = NaN THEN 0 ELSE @,
              !.sound_dbfs = IF @ = NaN THEN 0 ELSE @]

\* updateAndNotify() without packet.seq++
UpdateAndNotify_NoIncrement(p, t) ==
    [p EXCEPT !.t_ms = t]

\* updateAndNotify() with a sequence counter wider than 16 bits
UpdateAndNotify_NoWrap(p, t) ==
    [p EXCEPT !.t_ms = t, !.seq = p.seq + 1]

\* updateAndNotify(): the packet it writes
UpdateAndNotify(p, t) ==
    [p EXCEPT !.t_ms = t, !.seq = (p.seq + 1) % Half]

\* A packet whose six floats are all 1.0
OnesPacket ==
    [ZeroPacket EXCEPT !.temp_c = 1065353216, !.rh_pct = 1065353216,
                       !.pressure_hpa = 1065353216, !.lux = 1065353216,
                       !.accel_g = 1065353216, !.sound_dbfs = 1065353216]

\* The sensor fields readSensors() assigns on this tick: those whose new value
\* does not depend on what the packet held before.
WrittenFields(h, b, a, l, in) ==
    {i \in 1..6 :
        FrameFields(ReadSensors(ZeroPacket, h, b, a, l, in))[i]
          = FrameFields(ReadSensors(OnesPacket, h, b, a, l, in))[i]}

\* WrittenFields, tabulated once over the flags and the inputs (@@ makes the
\* table an explicit function)
WrittenTable ==
    [x \in BOOLEAN \X BOOLEAN \X BOOLEAN \X BOOLEAN \X SensorInputs |->
        WrittenFields(x[1], x[2], x[3], x[4], x[5]) \cup {}] @@ <<>>

\* ------------------------------------------------------------- the hub
\* PacketValidator step 4: per node_id the last-seen seq, and the gap
\* (seq - last_seq) mod 65536 computed when a notification arrives.
\* missed: notifications lost between the previous arrival and this one.
NoHub == [seen |-> FALSE, last |-> 0, gap |-> 0, missed |-> 0, ngaps |-> 0]

HubReceive(h, bytes, nlost) ==
    [seen |-> TRUE,
     last |-> SeqOf(bytes),
     gap |-> IF h.seen THEN (SeqOf(bytes) - h.last + Half) % Half ELSE 0,
     missed |-> nlost,
     ngaps |-> IF h.seen THEN h.ngaps + 1 ELSE h.ngaps]

\* PacketValidator steps 1 and 2: the length is exactly 44 bytes and the first
\* 4 bytes are "CTX1"
Validate(buf) == Len(buf) = DocPacketSize /\ SubSeq(buf, 1, 4) = MAGIC

\* A notification handed to the stack arrives at the hub or is lost.
HubOnNotify(bytes) ==
    /\ \/ hub' = HubReceive(hub, bytes, lost) /\ lost' = 0
       \/ lossy /\ hub' = hub /\ lost' = lost + 1
    /\ UNCHANGED lossy

\* ------------------------------------------------------------- state
Running == {"loop", "poll", "notify"}

Init ==
    /\ pc = "boot"
    /\ now = Zero32
    /\ currentTime = Zero32
    /\ lastSampleTime = Zero32
    /\ lastNotifyTime = Zero32
    /\ hts_ok = FALSE /\ baro_ok = FALSE /\ apds_ok = FALSE /\ lsm_ok = FALSE
    /\ packet = ZeroPacket
    /\ charValue = <<>>
    /\ connected = FALSE
    /\ advertising = FALSE
    /\ led = FALSE
    /\ sent = 0
    /\ sampled = FALSE
    /\ connects = 0
    /\ ticks = 0
    /\ hist = <<>>
    /\ bleStarted = FALSE
    /\ lastFrame = <<>>
    /\ fieldStamp = [i \in 1..6 |-> <<>>]
    /\ hub = NoHub
    /\ lost = 0
    /\ lossy = FALSE
    /\ lastAcc = <<>>
    /\ lastColor = <<>>
    /\ dispatched = FALSE

\* millis() advances
Tick ==
    /\ ticks < MaxTicks
    /\ ticks' = ticks + 1
    /\ now' = Add32(now, Quantum)
    /\ UNCHANGED <<pc, timers, flags, packet, charValue, link, sent, sampled, hist,
                   bleStarted, audit, hubv, dispatched>>

\* setup() giving up when a sensor subsystem did not start
SetupOk_NeedsSensors ==
    /\ pc = "boot"
    /\ \E h \in BOOLEAN, b \in BOOLEAN, a \in BOOLEAN, l \in BOOLEAN :
         /\ hts_ok' = h /\ baro_ok' = b /\ apds_ok' = a /\ lsm_ok' = l
         /\ pc' = IF h /\ b /\ a /\ l THEN "loop" ELSE "halted"
    /\ packet' = InitHeader(packet)
    /\ charValue' = PacketBytes(packet')
    /\ advertising' = TRUE
    /\ led' = TRUE
    /\ bleStarted' = TRUE
    /\ UNCHANGED <<now, timers, connected, connects, sent, sampled, ticks, hist,
                   audit, hubv, dispatched>>

\* setup() with the wireless stack starting
SetupOk ==
    /\ pc = "boot"
    /\ \E h \in BOOLEAN, b \in BOOLEAN, a \in BOOLEAN, l \in BOOLEAN :
         /\ hts_ok' = h /\ baro_ok' = b /\ apds_ok' = a /\ lsm_ok' = l
    /\ packet' = InitHeader(packet)
    /\ charValue' = PacketBytes(packet')
    /\ advertising' = TRUE
    /\ led' = TRUE
    /\ bleStarted' = TRUE
    /\ pc' = "loop"
    /\ UNCHANGED <<now, timers, connected, connects, sent, sampled, ticks, hist,
                   audit, hubv, dispatched>>

\* setup() with BLE.begin() failing and no while (1): it returns into loop()
SetupHalt_FallsThrough ==
    /\ pc = "boot"
    /\ \E h \in BOOLEAN, b \in BOOLEAN, a \in BOOLEAN, l \in BOOLEAN :
         /\ hts_ok' = h /\ baro_ok' = b /\ apds_ok' = a /\ lsm_ok' = l
    /\ packet' = InitHeader(packet)
    /\ pc' = "loop"
    /\ UNCHANGED <<now, timers, charValue, link, sent, sampled, ticks, hist,
                   bleStarted, audit, hubv, dispatched>>

\* setup() with BLE.begin() failing: while (1);
SetupHalt ==
    /\ pc = "boot"
    /\ \E h \in BOOLEAN, b \in BOOLEAN, a \in BOOLEAN, l \in BOOLEAN :
         /\ hts_ok' = h /\ baro_ok' = b /\ apds_ok' = a /\ lsm_ok' = l
    /\ packet' = InitHeader(packet)
    /\ pc' = "halted"
    /\ UNCHANGED <<now, timers, charValue, link, sent, sampled, ticks, hist,
                   bleStarted, audit, hubv, dispatched>>

\* loop() waiting for a central before it does anything
LoopBegin_WaitsForCentral ==
    /\ pc = "loop"
    /\ connected
    /\ currentTime' = now
    /\ pc' = "poll"
    /\ UNCHANGED <<now, lastSampleTime, lastNotifyTime, flags, packet,
                   charValue, link, sent, sampled, ticks, hist,
                   bleStarted, audit, hubv, dispatched>>

\* loop(): unsigned long currentTime = millis(); BLE.poll() is entered
LoopBegin ==
    /\ pc = "loop"
    /\ currentTime' = now
    /\ pc' = "poll"
    /\ UNCHANGED <<now, lastSampleTime, lastNotifyTime, flags, packet,
                   charValue, link, sent, sampled, ticks, hist,
                   bleStarted, audit, hubv, dispatched>>

\* onBLEConnected without digitalWrite(LED_BUILTIN, LOW)
OnBLEConnected_LedStays ==
    /\ pc = "poll"
    /\ ~connected
    /\ connects < MaxConnects
    /\ connected' = TRUE
    /\ advertising' = FALSE
    /\ connects' = connects + 1
    /\ UNCHANGED <<pc, now, timers, flags, packet, charValue, sent, sampled,
                   ticks, hist, led,
                   bleStarted, audit, hubv>>
    /\ UNCHANGED dispatched

\* onBLEConnected starting the sequence afresh for the new central
OnBLEConnected_ResetSeq ==
    /\ pc = "poll"
    /\ ~connected
    /\ connects < MaxConnects
    /\ connected' = TRUE
    /\ advertising' = FALSE
    /\ led' = FALSE
    /\ connects' = connects + 1
    /\ packet' = [packet EXCEPT !.seq = 0]
    /\ UNCHANGED <<pc, now, timers, flags, charValue, sent, sampled, ticks, hist,
                   bleStarted, audit, hubv>>
    /\ UNCHANGED dispatched

\* BLE.poll() dispatching a connect event: onBLEConnected
OnBLEConnected ==
    /\ pc = "poll"
    /\ ~connected
    /\ connects < MaxConnects
    /\ connected' = TRUE
    /\ advertising' = FALSE
    /\ led' = FALSE
    /\ connects' = connects + 1
    /\ UNCHANGED <<pc, now, timers, flags, packet, charValue, sent, sampled,
                   ticks, hist,
                   bleStarted, audit, hubv>>
    /\ UNCHANGED dispatched

\* onBLEDisconnected run from an interrupt, at any point of loop()
OnBLEDisconnected_Preempts ==
    /\ pc \in {"poll", "notify"}
    /\ connected
    /\ connected' = FALSE
    /\ led' = TRUE
    /\ advertising' = TRUE
    /\ UNCHANGED <<pc, now, timers, flags, packet, charValue, connects, sent,
                   sampled, ticks, hist,
                   bleStarted, audit, hubv>>
    /\ dispatched' = TRUE

\* onBLEDisconnected without BLE.advertise()
OnBLEDisconnected_NoAdvertise ==
    /\ pc = "poll"
    /\ connected
    /\ connected' = FALSE
    /\ led' = TRUE
    /\ UNCHANGED <<pc, now, timers, flags, packet, charValue, advertising,
                   connects, sent, sampled, ticks, hist,
                   bleStarted, audit, hubv>>
    /\ dispatched' = TRUE

\* BLE.poll() dispatching a disconnect event: onBLEDisconnected
OnBLEDisconnected ==
    /\ pc = "poll"
    /\ connected
    /\ connected' = FALSE
    /\ led' = TRUE
    /\ advertising' = TRUE
    /\ UNCHANGED <<pc, now, timers, flags, packet, charValue, connects, sent,
                   sampled, ticks, hist,
                   bleStarted, audit, hubv>>
    /\ dispatched' = TRUE

\* the sample timer with a period longer than the notify timer's
SampleDue_Slow ==
    Ge32(Sub32(currentTime, lastSampleTime), notifyInterval + sampleInterval)

\* loop(): currentTime - lastSampleTime >= sampleInterval
SampleDue == Ge32(Sub32(currentTime, lastSampleTime), sampleInterval)

\* the notify timer tested as currentTime >= lastNotifyTime + notifyInterval
NotifyDue_NoWrap == Le32(Add32(lastNotifyTime, notifyInterval), currentTime)

\* the notify timer running at the sample period
NotifyDue_SamplePeriod == Ge32(Sub32(currentTime, lastNotifyTime), sampleInterval)

\* loop(): currentTime - lastNotifyTime >= notifyInterval
NotifyDue == Ge32(Sub32(currentTime, lastNotifyTime), notifyInterval)

\* the sampling branch running only while a central is connected
SampleTick_OnlyConnected ==
    /\ pc = "poll"
    /\ SampleDue
    /\ IF connected
       THEN /\ lastSampleTime' = currentTime
            /\ \E in \in SensorInputs :
                 /\ packet' = ReadSensors(packet, hts_ok, baro_ok, apds_ok, lsm_ok, in)
                 /\ fieldStamp' = [i \in 1..6 |->
                                     IF i \in WrittenTable[<<hts_ok, baro_ok, apds_ok, lsm_ok, in>>]
                                     THEN <<currentTime>> ELSE fieldStamp[i]]
                 /\ lastAcc' = IF lsm_ok /\ in.accelerationAvailable THEN in.acc ELSE <<>>
                 /\ lastColor' = IF apds_ok /\ in.colorAvailable THEN <<in.a>> ELSE <<>>
            /\ lastFrame' = FrameFields(packet')
            /\ sampled' = TRUE
       ELSE UNCHANGED <<lastSampleTime, packet, audit, sampled>>
    /\ pc' = "notify"
    /\ UNCHANGED <<now, currentTime, lastNotifyTime, flags, charValue, link,
                   sent, ticks, hist,
                   bleStarted, hubv, dispatched>>

\* the sampling branch trying the temperature/humidity sensor again
SampleTick_Retry ==
    /\ pc = "poll"
    /\ SampleDue
    /\ lastSampleTime' = currentTime
    /\ hts_ok' = TRUE
    /\ \E in \in SensorInputs :
         /\ packet' = ReadSensors(packet, hts_ok', baro_ok, apds_ok, lsm_ok, in)
         /\ fieldStamp' = [i \in 1..6 |->
                             IF i \in WrittenTable[<<hts_ok', baro_ok, apds_ok, lsm_ok, in>>]
                             THEN <<currentTime>> ELSE fieldStamp[i]]
         /\ lastAcc' = IF lsm_ok /\ in.accelerationAvailable THEN in.acc ELSE <<>>
         /\ lastColor' = IF apds_ok /\ in.colorAvailable THEN <<in.a>> ELSE <<>>
    /\ lastFrame' = FrameFields(packet')
    /\ sampled' = TRUE
    /\ pc' = "notify"
    /\ UNCHANGED <<now, currentTime, lastNotifyTime, baro_ok, apds_ok, lsm_ok,
                   charValue, link, sent, ticks, hist,
                   bleStarted, hubv, dispatched>>

\* BLE.poll() has returned and the sample timer has elapsed: readSensors()
SampleTick ==
    /\ pc = "poll"
    /\ SampleDue
    /\ lastSampleTime' = currentTime
    /\ \E in \in SensorInputs :
         /\ packet' = ReadSensors(packet, hts_ok, baro_ok, apds_ok, lsm_ok, in)
         /\ fieldStamp' = [i \in 1..6 |->
                             IF i \in WrittenTable[<<hts_ok, baro_ok, apds_ok, lsm_ok, in>>]
                             THEN <<currentTime>> ELSE fieldStamp[i]]
         /\ lastAcc' = IF lsm_ok /\ in.accelerationAvailable THEN in.acc ELSE <<>>
         /\ lastColor' = IF apds_ok /\ in.colorAvailable THEN <<in.a>> ELSE <<>>
    /\ lastFrame' = FrameFields(packet')
    /\ sampled' = TRUE
    /\ pc' = "notify"
    /\ UNCHANGED <<now, currentTime, lastNotifyTime, flags, charValue, link,
                   sent, ticks, hist,
                   bleStarted, hubv, dispatched>>

\* BLE.poll() has returned and the sample timer has not elapsed
SampleSkip ==
    /\ pc = "poll"
    /\ ~SampleDue
    /\ pc' = "notify"
    /\ UNCHANGED <<now, timers, flags, packet, charValue, link, sent, sampled,
                   ticks, hist,
                   bleStarted, audit, hubv, dispatched>>

\* the notification branch without the BLE.connected() test
NotifyTransmit_Unguarded ==
    /\ pc = "notify"
    /\ NotifyDue
    /\ lastNotifyTime' = currentTime
    /\ packet' = UpdateAndNotify(packet, now)
    /\ charValue' = PacketBytes(packet')
    /\ HubOnNotify(charValue')
    /\ sent' = sent + 1
    /\ hist' = Append(hist, "tx")
    /\ pc' = "loop"
    /\ UNCHANGED <<now, currentTime, lastSampleTime, flags, link, sampled, ticks,
                   bleStarted, audit>>
    /\ dispatched' = FALSE

\* the notification branch writing only during the first connection
NotifyTransmit_FirstConnectionOnly ==
    /\ pc = "notify"
    /\ NotifyDue
    /\ connected
    /\ lastNotifyTime' = currentTime
    /\ packet' = UpdateAndNotify(packet, now)
    /\ charValue' = IF connects = 1 THEN PacketBytes(packet') ELSE charValue
    /\ IF connects = 1 THEN HubOnNotify(charValue') ELSE UNCHANGED hubv
    /\ sent' = IF connects = 1 THEN sent + 1 ELSE sent
    /\ hist' = Append(hist, IF connects = 1 THEN "tx" ELSE "skip")
    /\ pc' = "loop"
    /\ UNCHANGED <<now, currentTime, lastSampleTime, flags, link, sampled, ticks,
                   bleStarted, audit>>
    /\ dispatched' = FALSE

\* the notify timer has elapsed and BLE.connected(): updateAndNotify()
NotifyTransmit ==
    /\ pc = "notify"
    /\ NotifyDue
    /\ connected
    /\ lastNotifyTime' = currentTime
    /\ packet' = UpdateAndNotify(packet, now)
    /\ charValue' = PacketBytes(packet')
    /\ HubOnNotify(charValue')
    /\ sent' = sent + 1
    /\ hist' = Append(hist, "tx")
    /\ pc' = "loop"
    /\ UNCHANGED <<now, currentTime, lastSampleTime, flags, link, sampled, ticks,
                   bleStarted, audit>>
    /\ dispatched' = FALSE

\* the skipped notification tick stamping the packet all the same
NotifySkip_StampsTime ==
    /\ pc = "notify"
    /\ NotifyDue
    /\ ~connected
    /\ lastNotifyTime' = currentTime
    /\ packet' = [packet EXCEPT !.t_ms = currentTime]
    /\ hist' = Append(hist, "skip")
    /\ pc' = "loop"
    /\ UNCHANGED <<now, currentTime, lastSampleTime, flags, charValue,
                   link, sent, sampled, ticks,
                   bleStarted, audit, hubv>>
    /\ dispatched' = FALSE

\* the skipped notification tick consuming a sequence number
NotifySkip_ConsumesSeq ==
    /\ pc = "notify"
    /\ NotifyDue
    /\ ~connected
    /\ lastNotifyTime' = currentTime
    /\ packet' = [packet EXCEPT !.seq = (packet.seq + 1) % Half]
    /\ hist' = Append(hist, "skip")
    /\ pc' = "loop"
    /\ UNCHANGED <<now, currentTime, lastSampleTime, flags, charValue,
                   link, sent, sampled, ticks,
                   bleStarted, audit, hubv>>
    /\ dispatched' = FALSE

\* the notify timer has elapsed and no central is connected
NotifySkip ==
    /\ pc = "notify"
    /\ NotifyDue
    /\ ~connected
    /\ lastNotifyTime' = currentTime
    /\ hist' = Append(hist, "skip")
    /\ pc' = "loop"
    /\ UNCHANGED <<now, currentTime, lastSampleTime, flags, packet, charValue,
                   link, sent, sampled, ticks,
                   bleStarted, audit, hubv>>
    /\ dispatched' = FALSE

\* the notify timer has not elapsed
NotifyIdle ==
    /\ pc = "notify"
    /\ ~NotifyDue
    /\ pc' = "loop"
    /\ UNCHANGED <<now, timers, flags, packet, charValue, link, sent, sampled,
                   ticks, hist,
                   bleStarted, audit, hubv>>
    /\ dispatched' = FALSE

\* loop(), called again and again
LoopStep ==
    \/ LoopBegin
    \/ OnBLEConnected
    \/ OnBLEDisconnected
    \/ SampleTick
    \/ SampleSkip
    \/ NotifyTransmit
    \/ NotifySkip
    \/ NotifyIdle

Next ==
    \/ Tick
    \/ SetupOk
    \/ SetupHalt
    \/ LoopStep

Spec == Init /\ [][Next]_vars

\* ------------------------------------------- the sequence counter at its wrap
\* The uptime at which the 65535th notification tick runs when every notify
\* timer period since boot ended in a transmission.
WrapTime ==
    U32(((Half - 1) * notifyInterval) \div Half, ((Half - 1) * notifyInterval) % Half)

\* The state after the 65535th transmitted record, the central still connected
\* (ticks and hist count from here).
InitSeqWrap ==
    /\ pc = "loop"
    /\ now = WrapTime
    /\ currentTime = WrapTime
    /\ lastSampleTime = WrapTime
    /\ lastNotifyTime = WrapTime
    /\ hts_ok \in BOOLEAN /\ baro_ok = hts_ok
    /\ apds_ok \in BOOLEAN /\ lsm_ok = apds_ok
    /\ \E in \in SensorInputs :
         /\ packet = [ReadSensors(InitHeader(ZeroPacket), hts_ok, baro_ok,
                                  apds_ok, lsm_ok, in)
                        EXCEPT !.seq = Half - 1, !.t_ms = WrapTime]
         /\ lastAcc = IF lsm_ok /\ in.accelerationAvailable THEN in.acc ELSE <<>>
         /\ lastColor = IF apds_ok /\ in.colorAvailable THEN <<in.a>> ELSE <<>>
    /\ charValue = PacketBytes(packet)
    /\ connected = TRUE
    /\ advertising = FALSE
    /\ led = FALSE
    /\ sent = Half - 1
    /\ sampled = TRUE
    /\ connects = 1
    /\ ticks = 0
    /\ hist = <<>>
    /\ bleStarted = TRUE
    /\ lastFrame = FrameFields(packet)
    /\ fieldStamp = [i \in 1..6 |-> <<WrapTime>>]
    /\ hub = [seen |-> TRUE, last |-> Half - 1, gap |-> 0, missed |-> 0, ngaps |-> 0]
    /\ lost = 0
    /\ lossy = TRUE
    /\ dispatched = FALSE

NextRun ==
    \/ Tick
    \/ LoopStep

SpecSeqWrap == InitSeqWrap /\ [][NextRun]_vars

\* ------------------------------------------- loop() called for ever
\* The state setup() leaves when the stack has started: the temperature and
\* humidity sensor may have started, the other subsystems have not.
InitLive ==
    /\ pc = "loop"
    /\ now = Zero32
    /\ currentTime = Zero32
    /\ lastSampleTime = Zero32
    /\ lastNotifyTime = Zero32
    /\ hts_ok \in BOOLEAN
    /\ baro_ok = FALSE /\ apds_ok = FALSE /\ lsm_ok = FALSE
    /\ packet = InitHeader(ZeroPacket)
    /\ charValue = PacketBytes(packet)
    /\ connected = FALSE
    /\ advertising = TRUE
    /\ led = TRUE
    /\ sent = 0
    /\ sampled = FALSE
    /\ connects = 0
    /\ ticks = 0
    /\ hist = <<>>
    /\ bleStarted = TRUE
    /\ lastFrame = <<>>
    /\ fieldStamp = [i \in 1..6 |-> <<>>]
    /\ hub = NoHub
    /\ lost = 0
    /\ lossy = FALSE
    /\ lastAcc = <<>>
    /\ lastColor = <<>>
    /\ dispatched = FALSE

\* The Arduino core calls loop() again as soon as it returns, and every call
\* it makes returns.
SpecLive == InitLive /\ [][NextRun]_vars /\ WF_vars(LoopStep)

\* ------------------------------------------- millis() at its wrap
\* An uptime three Tick steps short of 2^32
UptimeWrapStart == U32(Half - 1, Half - 3 * Quantum)

\* A device that has run unconnected up to UptimeWrapStart, the sample timer
\* having just fired, the notify timer just then or one Tick step before
\* (ticks and hist count from here).
InitTimeWrap ==
    /\ pc = "loop"
    /\ now = UptimeWrapStart
    /\ currentTime = UptimeWrapStart
    /\ lastSampleTime = UptimeWrapStart
    /\ lastNotifyTime \in {UptimeWrapStart, Sub32(UptimeWrapStart, U32(0, Quantum))}
    /\ hts_ok \in BOOLEAN
    /\ baro_ok = FALSE /\ apds_ok = FALSE /\ lsm_ok = FALSE
    /\ \E in \in SensorInputs :
         packet = ReadSensors(InitHeader(ZeroPacket), hts_ok, baro_ok, apds_ok,
                              lsm_ok, in)
    /\ charValue = PacketBytes(InitHeader(ZeroPacket))
    /\ connected = FALSE
    /\ advertising = TRUE
    /\ led = TRUE
    /\ sent = 0
    /\ sampled = TRUE
    /\ connects = 0
    /\ ticks = 0
    /\ hist = <<>>
    /\ bleStarted = TRUE
    /\ lastFrame = FrameFields(packet)
    /\ fieldStamp = [i \in 1..6 |-> <<UptimeWrapStart>>]
    /\ hub = NoHub
    /\ lost = 0
    /\ lossy = FALSE
    /\ lastAcc = <<>>
    /\ lastColor = <<>>
    /\ dispatched = FALSE

SpecTimeWrap == InitTimeWrap /\ [][NextRun]_vars

\* ------------------------------------------------------------ claims
\* ConnectionLifecycleManager's state, read off the stack
LifecycleState ==
    IF connected THEN "Connected"
    ELSE IF advertising THEN "Advertising"
    ELSE "Idle"


C2_WrapToZero ==
    /\ sent = Half => SeqOf(charValue) = 0 /\ packet.seq = 0
    /\ sent = Half + 1 => SeqOf(charValue) = 1 /\ packet.seq = 1
    /\ pc \in Running

C2_Witness ==
    sent = Half + 1 /\ SeqOf(charValue) = 1

\* C3: every record written by a notification tick carries the seq of the
\* record written before it plus 1 mod 65536, and after boot no step changes
\* the counter in any other way than by +1 mod 65536.
C3_SeqStepsByOne ==
    [][ /\ sent' # sent =>
             /\ sent' = sent + 1
             /\ SeqOf(charValue') = (SeqOf(charValue) + 1) % Half
        /\ pc # "boot" =>
             packet'.seq \in {packet.seq, (packet.seq + 1) % Half} ]_vars

C3_Witness ==
    /\ hist = <<"tx", "skip", "tx">>
    /\ connects = 2
    /\ sent = 2

\* C4: a step writes a record to the characteristic after boot only as a
\* notification tick taken while Connected; a notification tick taken in any
\* other state writes nothing.
C4_TransmitOnlyConnected ==
    [][ /\ (sent' # sent \/ (pc # "boot" /\ charValue' # charValue)) =>
             pc = "notify" /\ LifecycleState = "Connected"
        /\ (pc = "notify" /\ pc' = "loop" /\ LifecycleState # "Connected") =>
             charValue' = charValue /\ sent' = sent ]_vars

C4_Witness ==
    /\ Len(hist) >= 2
    /\ hist[1] = "skip"
    /\ hist[2] = "tx"

\* C5: a connect event leads from Advertising to Connected; a notification
\* tick taken while Connected transmits; a disconnect event leads back to
\* Advertising; no record is transmitted while not Connected; the process
\* never returns to boot.
C5_Lifecycle ==
    [][ /\ connects' # connects =>
             LifecycleState = "Advertising" /\ LifecycleState' = "Connected"
        /\ (connected /\ ~connected') => LifecycleState' = "Advertising"
        /\ (pc = "notify" /\ pc' = "loop" /\ NotifyDue
              /\ LifecycleState = "Connected") =>
             sent' = sent + 1 /\ charValue' = PacketBytes(packet')
        /\ LifecycleState # "Connected" => sent' = sent
        /\ pc # "boot" => pc' # "boot" ]_vars

C5_Witness ==
    /\ Len(hist) = 3
    /\ hist[1] = "tx" /\ hist[2] = "skip" /\ hist[3] = "tx"
    /\ LifecycleState = "Connected"

\* C6: after a successful boot the node is Connected or advertising in every
\* state, and every disconnect event leaves it advertising.
C6_NeverUnreachable ==
    /\ [](pc \in Running => connected \/ advertising)
    /\ [][(connected /\ ~connected') => advertising']_vars

C6_Witness ==
    /\ pc \in Running
    /\ connects >= 1
    /\ ~connected
    /\ advertising

\* C7: once a sampling tick has run, the frame fields fed by a subsystem
\* whose availability flag is false are NaN, and so are those fields of every
\* record written by a notification tick.
UnavailableAreNaN(f) ==
    /\ ~hts_ok => f[1] = NaN /\ f[2] = NaN
    /\ ~baro_ok => f[3] = NaN
    /\ ~apds_ok => f[4] = NaN
    /\ ~lsm_ok => f[5] = NaN

C7_UnavailableIsNaN ==
    /\ sampled => UnavailableAreNaN(FrameFields(packet))
    /\ sent >= 1 => UnavailableAreNaN(RecordFields(charValue))

C7_Witness ==
    /\ sent >= 1
    /\ ~hts_ok /\ ~baro_ok /\ ~apds_ok /\ ~lsm_ok
    /\ RecordFields(charValue) = <<NaN, NaN, NaN, NaN, NaN, NaN>>

\* C8 as stated: between boot and the first sampling tick all six fields of
\* the frame, and of the characteristic value written during setup, are NaN.
C8_BootFrameIsNaN ==
    (pc \in Running /\ ~sampled) =>
        /\ FrameFields(packet) = <<NaN, NaN, NaN, NaN, NaN, NaN>>
        /\ RecordFields(charValue) = <<NaN, NaN, NaN, NaN, NaN, NaN>>

\* C9 as stated: every record written to the characteristic is exactly
\* 44 bytes long, and the characteristic's value size is that size.
C9_RecordIs44Bytes ==
    charValue # <<>> =>
        /\ Len(charValue) = DocPacketSize
        /\ SizeofPacket = Len(charValue)

\* C10: after boot the packet's magic is "CTX1", its node_id is NODE_ID and
\* its reserved byte is 0, and every record written to the characteristic
\* carries these three values at offsets 0, 4 and 5.
C10_HeaderConstant ==
    /\ pc # "boot" =>
         packet.magic = MAGIC /\ packet.node_id = NODE_ID /\ packet.reserved = 0
    /\ charValue # <<>> =>
         /\ SubSeq(charValue, 1, 4) = MAGIC
         /\ charValue[5] = NODE_ID
         /\ charValue[6] = 0

C10_Witness ==
    /\ sent >= 1
    /\ sampled
    /\ connects = 2
    /\ ~connected

\* C11 as stated: a frame encoded with its node_id, seq and t_ms and read back
\* per the documented layout gives the same node_id, seq, t_ms and six sensor
\* values (NaN as NaN), magic "CTX1", reserved 0, and eight zero padding bytes
\* at offsets 36 .. 43.
C11_RoundTrip ==
    pc # "boot" =>
        LET rec == PacketBytes(packet)
        IN  /\ Len(rec) = DocPacketSize
            /\ Decode(rec) = packet
            /\ Decode(rec).magic = MAGIC
            /\ Decode(rec).reserved = 0
            /\ Padding(rec) = <<0, 0, 0, 0, 0, 0, 0, 0>>

\* C12: every record a notification tick transmits carries, bit for bit, the
\* six values the most recent sampling tick left in the frame; NaN stays NaN.
C12_RecordCarriesLatestSample ==
    [][sent' # sent =>
         /\ sampled
         /\ lastFrame = FrameFields(packet)
         /\ RecordFields(charValue') = lastFrame]_vars

\* A first transmission after a skipped notify tick: the record holds the
\* sample taken in the transmitting iteration, a NaN and finite values in it.
C12_Witness ==
    /\ sent = 1
    /\ hist = <<"skip", "tx">>
    /\ pc = "loop"
    /\ fieldStamp[5] = <<lastNotifyTime>>
    /\ RecordFields(charValue) = lastFrame
    /\ lastFrame[6] = NaN
    /\ lastFrame[1] = 1101791232
    /\ lastFrame[5] = 1068827891

\* C13: when BLE.begin() fails at boot the device is halted for good: it never
\* advertises, never runs a sampling or notification tick, never writes a
\* record, and no step leaves the halted state.
C13_HaltIsTerminal ==
    /\ [](pc # "boot" /\ ~bleStarted =>
            /\ pc = "halted"
            /\ ~advertising /\ ~connected
            /\ ~sampled /\ sent = 0 /\ hist = <<>>
            /\ charValue = <<>>
            /\ lastSampleTime = Zero32 /\ lastNotifyTime = Zero32)
    /\ [][pc = "halted" => pc' = "halted"]_vars

C13_Witness ==
    /\ pc = "halted"
    /\ ticks >= 2

\* C14: whichever of the four sensor subsystems fail to start, once the
\* wireless stack has started the device is never halted: it advertises from
\* the end of setup, every elapsed sample timer runs a sampling tick and every
\* elapsed notify timer transmits a record while a central is connected.
C14_SensorFailureNotFatal ==
    /\ [](bleStarted =>
            /\ pc \in Running
            /\ advertising \/ connected
            /\ connects = 0 => advertising)
    /\ [][bleStarted /\ pc = "poll" /\ pc' # "poll" /\ SampleDue =>
            sampled' /\ lastSampleTime' = currentTime]_vars
    /\ [][bleStarted /\ pc = "notify" /\ pc' # "notify" /\ NotifyDue /\ connected =>
            sent' = sent + 1 /\ charValue' = PacketBytes(packet')]_vars

C14_Witness ==
    /\ ~hts_ok /\ ~baro_ok /\ ~apds_ok /\ ~lsm_ok
    /\ sampled
    /\ connected
    /\ sent >= 2

\* C15 as stated: the validator accepts a buffer exactly when it is 44 bytes
\* long and starts with "CTX1", so every record the node writes to the
\* characteristic is accepted.
C15_EveryRecordAccepted ==
    charValue # <<>> => Validate(charValue)

\* C16: the hub computes gap = (seq - last_seq) mod 65536 on each arrival.
\* When no record was lost since the previous arrival the gap is exactly 1,
\* across the 65535 -> 0 wrap and across a disconnect and reconnect as well;
\* a gap greater than 1 is seen only when at least one record was lost.
C16_GapIsOneUnlessLost ==
    hub.ngaps >= 1 =>
        /\ hub.missed = 0 => hub.gap = 1
        /\ hub.gap > 1 => hub.missed >= 1
        /\ hub.gap = hub.missed + 1

\* Record 0 arrives after record 65535, the central leaves, a notify tick is
\* skipped, the central returns and record 1 arrives: both gaps are 1.
C16_Witness ==
    /\ hub.ngaps = 2
    /\ hub.missed = 0 /\ lost = 0
    /\ hub.gap = 1
    /\ hub.last = 1
    /\ hist = <<"tx", "skip", "tx">>
    /\ connects = 2
    /\ sent = Half + 1

\* C17: a sampling tick runs whenever the sample timer has elapsed, whether
\* or not a central is connected and whatever the notify timer says, and
\* rewrites the whole frame; the sampling branch leaves the notify timer, the
\* connection and the record alone, and the notification branch never
\* changes the sample timer or the frame's sensor values.
C17_SamplingIndependent ==
    /\ [][pc = "poll" /\ pc' = "notify" /\ SampleDue =>
            /\ sampled'
            /\ lastSampleTime' = currentTime
            /\ fieldStamp' = [i \in 1..6 |-> <<currentTime>>]
            /\ lastFrame' = FrameFields(packet')]_vars
    /\ [][pc = "poll" /\ pc' = "notify" =>
            /\ lastNotifyTime' = lastNotifyTime
            /\ connected' = connected
            /\ charValue' = charValue /\ sent' = sent]_vars
    /\ [][pc = "notify" /\ pc' = "loop" =>
            /\ lastSampleTime' = lastSampleTime
            /\ FrameFields(packet') = FrameFields(packet)]_vars

\* Never connected: notify ticks were skipped while sampling went on, and the
\* two timers stand at different times.
C17_Witness ==
    /\ connects = 0
    /\ Len(hist) >= 2
    /\ sampled
    /\ ticks >= 5
    /\ lastSampleTime = now
    /\ lastSampleTime # lastNotifyTime
    /\ fieldStamp[6] = <<now>>

\* the whole part of a non-negative float
FloatFloor(f) ==
    LET e == (f \div Pow2(23)) - 127
        m == Pow2(23) + (f % Pow2(23))
    IN  IF e < 0 THEN 0
        ELSE IF e >= 23 THEN m * Pow2(e - 23)
        ELSE m \div Pow2(23 - e)

\* a float with the sign bit clear and an exponent below 255
IsFiniteNonNegative(f) == f >= 0 /\ f < 255 * Pow2(23)

\* the sum of squares of the sample the latest sampling tick read
SumOfSquares ==
    lastAcc[1] * lastAcc[1] + lastAcc[2] * lastAcc[2] + lastAcc[3] * lastAcc[3]

C19_FlagsFixedAfterBoot ==
    [][pc # "boot" => flags' = flags]_vars

C19_Witness ==
    /\ hts_ok /\ ~baro_ok /\ ~apds_ok /\ lsm_ok
    /\ sampled
    /\ sent >= 1
    /\ connects = 2
    /\ ~connected
    /\ ticks = MaxTicks

\* C20: when a notification tick transmits, all six sensor fields of the
\* frame it encodes were written by one and the same sampling tick, and the
\* record holds exactly those six values.
C20_RecordFromOneTick ==
    [][sent' # sent =>
         /\ fieldStamp[1] # <<>>
         /\ \A i \in 1..6 : fieldStamp[i] = fieldStamp[1]
         /\ fieldStamp[1] = <<lastSampleTime>>
         /\ RecordFields(charValue') = FrameFields(packet)]_vars

\* The second record of a connection: the lux value a fresh one, every field
\* stamped by the sampling tick of the transmitting iteration.
C20_Witness ==
    /\ sent = 2
    /\ connected
    /\ pc = "loop"
    /\ lastNotifyTime = currentTime
    /\ \A i \in 1..6 : fieldStamp[i] = <<currentTime>>
    /\ RecordFields(charValue) = lastFrame
    /\ lastFrame[4] = IntToFloat(300)
    /\ lastFrame[5] = NaN

\* C21 as stated: when the poll of a loop() iteration has dispatched a
\* disconnect event that iteration transmits no record, and the lifecycle
\* state does not change between the BLE.connected() test and the write.
C21_DisconnectMeansNoRecord ==
    /\ [][pc = "notify" /\ pc' = "loop" /\ dispatched => sent' = sent]_vars
    /\ [][pc = "notify" => connected' = connected]_vars

\* C21, amended: the callbacks run inside BLE.poll() only, so the timer checks
\* see the state the last callback of that poll left. A notify timer that has
\* elapsed transmits exactly when that state is Connected: no record when the
\* last event dispatched was a disconnect, a record when a connect followed
\* it in the same poll. Nothing changes the state between the end of the
\* poll and the write of the record.
C21_ChecksSeeLastCallback ==
    /\ [][pc = "notify" /\ pc' = "loop" /\ NotifyDue =>
            (sent' = sent + 1 <=> connected)]_vars
    /\ [][pc = "notify" /\ pc' = "loop" /\ dispatched /\ ~connected =>
            sent' = sent /\ charValue' = charValue]_vars
    /\ [][pc # "boot" /\ <<connected, advertising, led>>' # <<connected, advertising, led>> =>
            pc = "poll" /\ pc' = "poll"]_vars

\* A disconnect was dispatched last by this iteration's poll, with records
\* sent before, and the notify timer has elapsed.
C21_Witness ==
    /\ pc = "notify"
    /\ NotifyDue
    /\ dispatched
    /\ ~connected
    /\ sent >= 1

\* the state a transmitting notification tick leaves, before loop() runs again
JustTransmitted ==
    /\ pc = "loop"
    /\ hist # <<>>
    /\ hist[Len(hist)] = "tx"
    /\ lastNotifyTime = currentTime

C23_EncodingOnlyMovesSeq ==
    [][sent' # sent =>
         /\ FrameFields(packet') = FrameFields(packet)
         /\ packet'.magic = packet.magic
         /\ packet'.node_id = packet.node_id
         /\ packet'.reserved = packet.reserved
         /\ flags' = flags
         /\ lastSampleTime' = lastSampleTime
         /\ LifecycleState' = LifecycleState
         /\ packet'.seq = (packet.seq + 1) % Half]_vars

C23_Witness ==
    /\ JustTransmitted
    /\ sent = 2
    /\ packet.seq = 2
    /\ FrameFields(packet) = lastFrame
    /\ lastFrame[1] # NaN
    /\ lastFrame[4] # NaN
    /\ connected

\* C24: a notification tick that fires while no central is connected leaves
\* seq, t_ms, the frame and the characteristic value as they were: it only
\* re-arms the notify timer.
C24_SkippedTickChangesNothing ==
    [][pc = "notify" /\ pc' = "loop" /\ NotifyDue /\ ~connected =>
         /\ packet' = packet
         /\ charValue' = charValue
         /\ sent' = sent
         /\ lastSampleTime' = lastSampleTime
         /\ lastNotifyTime' = currentTime]_vars

\* Two records with a skipped tick between them: the second carries seq 2.
C24_Witness ==
    /\ hist = <<"tx", "skip", "tx">>
    /\ sent = 2
    /\ SeqOf(charValue) = 2

\* C25: after a sampling tick, lux is NaN when the light subsystem is
\* available but no new colour sample was ready, accel_g is NaN when the
\* motion subsystem is available but no new acceleration sample was ready, a
\* sample that was ready is what the field holds, and all six fields were
\* written by that tick: none keeps an earlier tick's value.
C25_NoSampleReadyIsNaN ==
    sampled =>
        /\ apds_ok /\ lastColor = <<>> => packet.lux = NaN
        /\ lsm_ok /\ lastAcc = <<>> => packet.accel_g = NaN
        /\ lastColor # <<>> => packet.lux = IntToFloat(lastColor[1])
        /\ lastAcc # <<>> => packet.accel_g # NaN
        /\ \A i \in 1..6 : fieldStamp[i] = <<lastSampleTime>>

\* Both subsystems available, no sample ready at the latest tick, while the
\* record sent before still holds a lux and an acceleration value.
C25_Witness ==
    /\ sampled
    /\ apds_ok /\ lsm_ok
    /\ lastColor = <<>> /\ lastAcc = <<>>
    /\ packet.lux = NaN /\ packet.accel_g = NaN
    /\ sent >= 1
    /\ F32At(charValue, 24) = IntToFloat(300)
    /\ F32At(charValue, 28) = 1084227584

\* C26: sound_dbfs is NaN after every sampling tick, whatever the flags and
\* the hardware say, and every record a notification tick has transmitted
\* carries NaN at offset 32.
C26_SoundAlwaysNaN ==
    /\ sampled => packet.sound_dbfs = NaN /\ lastFrame[6] = NaN
    /\ sent >= 1 => F32At(charValue, 32) = NaN

C26_Witness ==
    /\ hts_ok /\ baro_ok /\ apds_ok /\ lsm_ok
    /\ sent >= 1
    /\ F32At(charValue, 32) = NaN
    /\ F32At(charValue, 12) # NaN
    /\ F32At(charValue, 20) # NaN
    /\ F32At(charValue, 24) # NaN
    /\ F32At(charValue, 28) # NaN

\* C27: once setup() has succeeded the LED is HIGH exactly when the state is
\* Advertising and LOW exactly when it is Connected, whatever connect and
\* disconnect events have happened.
C27_LedMirrorsState ==
    bleStarted =>
        /\ led <=> LifecycleState = "Advertising"
        /\ ~led <=> LifecycleState = "Connected"

C27_Witness ==
    /\ connects = 2
    /\ connected
    /\ ~led
    /\ dispatched
    /\ pc = "notify"

\* C28: the loop times of two consecutive notification ticks differ by at
\* least 200 ms and those of two consecutive sampling ticks by at least
\* 100 ms; every transmitted record re-arms the notify timer, so at most one
\* record is transmitted per 200 ms of loop time; and a loop() iteration that
\* finds a timer's period elapsed runs that timer's tick.
C28_TimerPeriods ==
    /\ [][lastNotifyTime' # lastNotifyTime =>
            /\ lastNotifyTime' = currentTime
            /\ Ge32(Sub32(lastNotifyTime', lastNotifyTime), notifyInterval)]_vars
    /\ [][lastSampleTime' # lastSampleTime =>
            /\ lastSampleTime' = currentTime
            /\ Ge32(Sub32(lastSampleTime', lastSampleTime), sampleInterval)]_vars
    /\ [][sent' # sent => lastNotifyTime' # lastNotifyTime]_vars
    /\ [][pc = "poll" /\ pc' = "notify" /\ SampleDue =>
            lastSampleTime' = currentTime /\ sampled']_vars
    /\ [][pc = "notify" /\ pc' = "loop" /\ NotifyDue =>
            lastNotifyTime' = currentTime /\ Len(hist') = Len(hist) + 1]_vars

\* Three notification ticks at the shortest spacing and six sampling ticks.
C28_Witness ==
    /\ Len(hist) = 3
    /\ lastNotifyTime = U32(0, 3 * notifyInterval)
    /\ lastSampleTime = lastNotifyTime
    /\ sent >= 1
    /\ ticks = MaxTicks

\* C30: no record is transmitted before a sampling tick has run: whenever
\* the notify timer is found elapsed the frame has been sampled, so every
\* transmitted record holds values written by a sampling tick, never the
\* frame as it was at boot.
C30_SampledBeforeTransmit ==
    /\ pc = "notify" /\ NotifyDue => sampled
    /\ sent >= 1 =>
         /\ sampled
         /\ \A i \in 1..6 : fieldStamp[i] # <<>>
         /\ RecordFields(charValue) # FrameFields(ZeroPacket)

\* The first record, sent at the first notification tick, holds the sample
\* taken in the same iteration.
C30_Witness ==
    /\ JustTransmitted
    /\ hist = <<"tx">>
    /\ sent = 1
    /\ lastNotifyTime = U32(0, notifyInterval)
    /\ fieldStamp[1] = <<currentTime>>
    /\ RecordFields(charValue) = lastFrame

\* the loop times a behaviour can see
LoopTimes == {U32(0, k * Quantum) : k \in 0..MaxTicks}

\* C29: after a successful boot no state of the main loop is terminal or
\* blocked: loop() can always take its next step and never leaves the loop;
\* and whenever the uptime has advanced a sample period past the latest
\* sampling tick, another sampling tick follows, whatever connect and
\* disconnect events occur.
C29_RunsForever ==
    /\ [](pc \in Running /\ ENABLED LoopStep)
    /\ [][pc' \in Running]_vars
    /\ \A t \in LoopTimes :
         (lastSampleTime = t /\ Ge32(Sub32(now, t), sampleInterval))
           ~> (lastSampleTime # t)

\* All the uptime and all the connections of the run used up, the latest
\* sampling tick at the present uptime.
C29_Witness ==
    /\ ticks = MaxTicks
    /\ connects = MaxConnects
    /\ ~connected
    /\ sampled
    /\ lastSampleTime = now
    /\ Len(hist) = 3

\* an uptime of the run across the wrap, in ms relative to the wrap: negative
\* before 2^32, counting on from 0 after it
SinceWrap(t) == IF t.hi = Half - 1 THEN t.lo - Half ELSE t.hi * Half + t.lo

\* C31: across the wrap of millis() from 2^32 - 1 to 0, a loop() iteration
\* runs the sampling tick exactly when at least 100 ms of uptime have really
\* passed since the sample timer last fired, and the notification tick
\* exactly when at least 200 ms have really passed since the notify timer
\* last fired: no timer fires early and none stalls.
C31_TimersSurviveWrap ==
    /\ [][pc = "poll" /\ pc' = "notify" =>
            /\ (SinceWrap(currentTime) - SinceWrap(lastSampleTime) >= sampleInterval)
                  <=> (lastSampleTime' # lastSampleTime)
            /\ lastSampleTime' # lastSampleTime =>
                  lastSampleTime' = currentTime
                    /\ fieldStamp' = [i \in 1..6 |-> <<currentTime>>]]_vars
    /\ [][pc = "notify" /\ pc' = "loop" =>
            /\ (SinceWrap(currentTime) - SinceWrap(lastNotifyTime) >= notifyInterval)
                  <=> (Len(hist') = Len(hist) + 1)
            /\ (SinceWrap(currentTime) - SinceWrap(lastNotifyTime) >= notifyInterval)
                  <=> (lastNotifyTime' # lastNotifyTime)
            /\ lastNotifyTime' # lastNotifyTime => lastNotifyTime' = currentTime]_vars
    /\ [][<<lastSampleTime, lastNotifyTime>>' # <<lastSampleTime, lastNotifyTime>> =>
            pc \in {"poll", "notify"} /\ pc' # pc]_vars

\* The uptime has wrapped, both timers have fired since, and a record
\* stamped after the wrap has been sent.
C31_Witness ==
    /\ now.hi = 0
    /\ lastSampleTime.hi = 0
    /\ lastNotifyTime.hi = 0
    /\ lastNotifyTime.lo < notifyInterval
    /\ Len(hist) >= 2
    /\ sent >= 1
    /\ JustTransmitted
    /\ packet.t_ms.hi = 0

=============================================================================
